---- MODULE Spec2Model ----
(***************************************************************************)
(* FakeMediator of p2psc (integration/src/util/fake_mediator.cpp): the     *)
(* accept loop, one connection handler per accepted socket, the keyed      *)
(* identifier store and the set of completed disconnects the handlers      *)
(* rendezvous through.                                                     *)
(***************************************************************************)
EXTENDS Integers, Sequences, FiniteSets, TLC

\* ---------------------------------------------------------------- bounds
MaxSessions == 3        \* connections accepted during one run
NumKeys     == 2        \* distinct public keys the peers advertise
NumAddrs    == 3        \* distinct peer socket addresses
MaxVersion  == 1        \* protocol versions 0..MaxVersion are advertised

\* ------------------------------------------------------------- constants
kVersion == 1           \* _protocol_version(kVersion)
nonce    == 1337        \* const auto nonce = 1337

Sessions == 1..MaxSessions
Keys     == 1..NumKeys
Versions == 0..MaxVersion
\* a socket::SocketAddress: ip() and port()
Addrs    == {[ip |-> 10 * i, port |-> i] : i \in 1..NumAddrs}
Proofs   == {nonce, nonce + 1}

MessageTypes == {"Advertise", "AdvertiseAbort", "AdvertiseChallenge",
                 "AdvertiseResponse", "PeerIdentification", "PeerDisconnect"}
NoType == "None"

\* handler positions at which the thread function has returned
Returned == {"quit", "aborted", "timed_out", "finished"}

VARIABLES
    mainpc,         \* the owner of the FakeMediator: constructed / running / inside stop()
    _is_running,
    _quit_after,
    sock_open,      \* the listening socket _socket is open
    workerpc,       \* _worker_thread inside _run()
    _handler_pool,  \* number of handler threads emplaced; handler i serves session i
    pc,             \* position of each handler inside _handle_connection
    address,        \* session_socket->get_socket_address() of each session
    advertise,      \* the Advertise payload each handler received
    proof,          \* the proof of the AdvertiseResponse each handler received
    maybe_peer,     \* result of get(their_key), <<>> when absent or not yet looked up
    role,           \* the branch taken on maybe_peer: Initiator (absent) or Responder
    awaited_peer,   \* result of the await, <<>> until it returned a record
    store,          \* _key_to_identifier_store
    _completed_disconnects,
    sent,           \* what each handler passed to session_socket->send, in order
    history,        \* history: the receives, sends, store and barrier calls each
                    \* handler has completed, in program order
    recording,      \* history: whether this run keeps the variable history
    _sent_messages,     \* the log _send_and_log appends to
    _received_messages, \* the log _receive_and_log appends to
    logged,         \* how many of its sends and receives each handler has logged
    push_back,      \* a handler inside push_back: <<n>>, the size it read, else <<>>
    _mutex,         \* <<>> when free, else <<t>>, the thread that holds it
    _disconnect_cv, \* the threads blocked in a wait on _disconnect_cv
    inserted        \* history: how often each address was inserted into
                    \* _completed_disconnects while it was not in it

vars == <<mainpc, _is_running, _quit_after, sock_open, workerpc, _handler_pool,
          pc, address, advertise, proof, maybe_peer, role, awaited_peer, store,
          _completed_disconnects, sent, history, recording,
          _sent_messages, _received_messages, logged, push_back,
          _mutex, _disconnect_cv, inserted>>

lifecycle == <<mainpc, _is_running, _quit_after, sock_open, workerpc>>

\* The two logs are written by the handlers and read by none of them
\* (get_sent_messages and get_received_messages serve the test). Writing them
\* is a step of its own, PushBackBegin and PushBackEnd below, which SpecLog
\* takes after every send and receive; the other specifications, whose
\* properties do not mention the logs, leave these steps out.
logs == <<_sent_messages, _received_messages, logged, push_back>>

\* _mutex and _disconnect_cv guard _completed_disconnects. AddToDisconnects and
\* WaitForDisconnect below take a whole _add_to_disconnects and the successful
\* pass of _wait_for_disconnect as one step each; SpecMonitor takes them lock
\* by lock and wait by wait instead.
monitor == <<_mutex, _disconnect_cv>>

NoAddr == [ip |-> 0, port |-> 0]
NoAdvertise == [version |-> 0, our_key |-> 0, their_key |-> 0]

\* ------------------------------------------------- the identifier store
\* PeerIdentifier(socket_address, version); by is a history field naming the
\* session whose handler constructed it.
PeerIdentifier(a, v, s) == [socket_address |-> a, version |-> v, by |-> s]

\* put(key, record): inserts or overwrites
StorePut(st, k, r) == [st EXCEPT ![k] = <<r>>]

\* get(key): the record, or absent (<<>>)
StoreGet(st, k) == st[k]

\* await(key, timeout): the record if present at wake time, else timed out (<<>>)
StoreAwait(st, k) == st[k]

\* ------------------------------------------------------------- messages
AdvertiseAbort(required) ==
    [type |-> "AdvertiseAbort", reason |-> required]

\* peer_pub_key->public_encrypt(std::to_string(nonce))
AdvertiseChallenge(key, plain) ==
    [type |-> "AdvertiseChallenge", encrypted_for |-> key, plain |-> plain]

PeerIdentification(rec) ==
    [type |-> "PeerIdentification", version |-> rec.version,
     ip |-> rec.socket_address.ip, port |-> rec.socket_address.port]

PeerDisconnect(a) == [type |-> "PeerDisconnect", port |-> a.port]

\* QUIT_IF_REQUESTED(message_type, _quit_after): where the handler goes next
QuitIfRequested(message_type, otherwise) ==
    IF message_type = _quit_after THEN "quit" ELSE otherwise

\* ---------------------------------------------------------------- history
\* one completed call of a handler: a receive or send of a message type, or a
\* call of the store (get, put, await, await_timed_out) or of the barrier
\* (wait_for, mark_complete)
Step(op, type) == [op |-> op, type |-> type]

Received(type) == Step("receive", type)
Sent(type)     == Step("send", type)
Called(op)     == Step(op, NoType)

\* what history and recording are together
trace == <<history, recording>>

\* handler s has completed these calls
Did(s, steps) ==
    /\ history' = IF recording THEN [history EXCEPT ![s] = @ \o steps] ELSE history
    /\ UNCHANGED recording

Constructed ==
    /\ mainpc = "constructed"
    /\ _is_running = FALSE
    /\ _quit_after = NoType
    /\ sock_open = TRUE
    /\ workerpc = "not_started"
    /\ _handler_pool = 0
    /\ pc = [s \in Sessions |-> "not_accepted"]
    /\ address = [s \in Sessions |-> NoAddr]
    /\ advertise = [s \in Sessions |-> NoAdvertise]
    /\ proof = [s \in Sessions |-> 0]
    /\ maybe_peer = [s \in Sessions |-> <<>>]
    /\ role = [s \in Sessions |-> "Unresolved"]
    /\ awaited_peer = [s \in Sessions |-> <<>>]
    /\ store = [k \in Keys |-> <<>>]
    /\ _completed_disconnects = {}
    /\ sent = [s \in Sessions |-> <<>>]
    /\ history = [s \in Sessions |-> <<>>]
    /\ _sent_messages = [data |-> <<>>, end |-> 0]
    /\ _received_messages = [data |-> <<>>, end |-> 0]
    /\ logged = [s \in Sessions |-> 0]
    /\ push_back = [s \in Sessions |-> <<>>]
    /\ _mutex = <<>>
    /\ _disconnect_cv = {}
    /\ inserted = [a \in Addrs |-> 0]

\* The properties of most specifications do not read history: their runs start
\* from Init and leave it empty. The specifications whose properties read what
\* each handler did, call by call, start from InitRecording.
Init == Constructed /\ recording = FALSE

InitRecording == Constructed /\ recording = TRUE

handlers == <<_handler_pool, pc, address, advertise, proof, maybe_peer, role,
              awaited_peer, store, _completed_disconnects, sent, trace>>

\* ------------------------------------------------------------ lifecycle
\* quit_after(message_type), configured by the test before run()
QuitAfter(t) ==
    /\ mainpc = "constructed"
    /\ _quit_after = NoType
    /\ _quit_after' = t
    /\ UNCHANGED <<mainpc, _is_running, sock_open, workerpc, handlers, logs, monitor, inserted>>

\* run()
Run ==
    /\ mainpc = "constructed"
    /\ ~_is_running
    /\ _is_running' = TRUE
    /\ workerpc' = "loop"
    /\ mainpc' = "running"
    /\ UNCHANGED <<_quit_after, sock_open, handlers, logs, monitor, inserted>>

\* _run(): while (_is_running)
LoopCheck ==
    /\ workerpc = "loop"
    /\ workerpc' = IF _is_running THEN "accept" ELSE "exited"
    /\ UNCHANGED <<mainpc, _is_running, _quit_after, sock_open, handlers, logs, monitor, inserted>>

\* The address of a session socket is the peer's (ip, port): two open
\* connections never share it, and once a handler has returned (its socket is
\* released) a later connection may come from the same address again.
Live(s) == pc[s] \notin (Returned \cup {"not_accepted"})
FreeAddr(a) == \A s \in Sessions : Live(s) => address[s] # a

\* _run(): accept() returns a session socket; a handler thread is emplaced
Accept(a) ==
    /\ workerpc = "accept"
    /\ sock_open
    /\ _handler_pool < MaxSessions
    /\ FreeAddr(a)
    /\ _handler_pool' = _handler_pool + 1
    /\ pc' = [pc EXCEPT ![_handler_pool + 1] = "recv_advertise"]
    /\ address' = [address EXCEPT ![_handler_pool + 1] = a]
    /\ workerpc' = "loop"
    /\ UNCHANGED <<mainpc, _is_running, _quit_after, sock_open, advertise, proof,
                   maybe_peer, role, awaited_peer, store, _completed_disconnects,
                   sent, trace, logs, monitor, inserted>>

\* _run(): accept() on the closed listening socket returns nullptr; continue
AcceptNull ==
    /\ workerpc = "accept"
    /\ ~sock_open
    /\ workerpc' = "loop"
    /\ UNCHANGED <<mainpc, _is_running, _quit_after, sock_open, handlers, logs, monitor, inserted>>

\* stop(): BOOST_ASSERT(_is_running); _is_running = false
StopBegin ==
    /\ mainpc = "running"
    /\ _is_running
    /\ _is_running' = FALSE
    /\ mainpc' = "stop_close"
    /\ UNCHANGED <<_quit_after, sock_open, workerpc, handlers, logs, monitor, inserted>>

\* stop(): _socket->close()
StopClose ==
    /\ mainpc = "stop_close"
    /\ sock_open' = FALSE
    /\ mainpc' = "stop_join_worker"
    /\ UNCHANGED <<_is_running, _quit_after, workerpc, handlers, logs, monitor, inserted>>

\* stop(): _worker_thread.join() returns once _run() has returned
StopJoinWorker ==
    /\ mainpc = "stop_join_worker"
    /\ workerpc = "exited"
    /\ mainpc' = "stop_join_handlers"
    /\ UNCHANGED <<_is_running, _quit_after, sock_open, workerpc, handlers, logs, monitor, inserted>>

\* faulty variant: stop() returns after joining the worker thread only
StopWithoutJoiningHandlers ==
    /\ mainpc = "stop_join_handlers"
    /\ mainpc' = "stopped"
    /\ UNCHANGED <<_is_running, _quit_after, sock_open, workerpc, handlers, logs, monitor, inserted>>

\* stop(): the loop of handler_thread.join() over _handler_pool is through once
\* every emplaced handler thread has returned
StopJoinHandlers ==
    /\ mainpc = "stop_join_handlers"
    /\ \A s \in 1.._handler_pool : pc[s] \in Returned
    /\ mainpc' = "stopped"
    /\ UNCHANGED <<_is_running, _quit_after, sock_open, workerpc, handlers, logs, monitor, inserted>>

\* ------------------------------------------------- _handle_connection
\* _receive_and_log<Advertise>, then QUIT_IF_REQUESTED
ReceiveAdvertise(s, v, ok, tk) ==
    /\ pc[s] = "recv_advertise"
    /\ advertise' = [advertise EXCEPT
                       ![s] = [version |-> v, our_key |-> ok, their_key |-> tk]]
    /\ pc' = [pc EXCEPT ![s] = QuitIfRequested("Advertise", "version_check")]
    /\ Did(s, <<Received("Advertise")>>)
    /\ UNCHANGED <<lifecycle, logs, monitor, inserted, _handler_pool, address, proof, maybe_peer, role, awaited_peer,
                   store, _completed_disconnects, sent>>

\* faulty variant: the return after the AdvertiseAbort is missing, the challenge follows
SendAdvertiseAbortNoReturn(s) ==
    /\ pc[s] = "version_check"
    /\ advertise[s].version < kVersion
    /\ sent' = [sent EXCEPT
                  ![s] = @ \o <<AdvertiseAbort(kVersion),
                                AdvertiseChallenge(advertise[s].our_key, nonce)>>]
    /\ pc' = [pc EXCEPT ![s] = "recv_response"]
    /\ Did(s, <<Sent("AdvertiseAbort"), Sent("AdvertiseChallenge")>>)
    /\ UNCHANGED <<lifecycle, logs, monitor, inserted, _handler_pool, address, advertise, proof, maybe_peer,
                   role, awaited_peer, store, _completed_disconnects>>

\* version < _protocol_version: send AdvertiseAbort and return
SendAdvertiseAbort(s) ==
    /\ pc[s] = "version_check"
    /\ advertise[s].version < kVersion
    /\ sent' = [sent EXCEPT ![s] = Append(@, AdvertiseAbort(kVersion))]
    /\ pc' = [pc EXCEPT ![s] = QuitIfRequested("AdvertiseAbort", "aborted")]
    /\ Did(s, <<Sent("AdvertiseAbort")>>)
    /\ UNCHANGED <<lifecycle, logs, monitor, inserted, _handler_pool, address, advertise, proof, maybe_peer, role,
                   awaited_peer, store, _completed_disconnects>>

\* otherwise: encrypt the nonce under our_key and send AdvertiseChallenge
SendAdvertiseChallenge(s) ==
    /\ pc[s] = "version_check"
    /\ ~(advertise[s].version < kVersion)
    /\ sent' = [sent EXCEPT
                  ![s] = Append(@, AdvertiseChallenge(advertise[s].our_key, nonce))]
    /\ pc' = [pc EXCEPT ![s] = QuitIfRequested("AdvertiseChallenge", "recv_response")]
    /\ Did(s, <<Sent("AdvertiseChallenge")>>)
    /\ UNCHANGED <<lifecycle, logs, monitor, inserted, _handler_pool, address, advertise, proof, maybe_peer, role,
                   awaited_peer, store, _completed_disconnects>>

\* faulty variant: no QUIT_IF_REQUESTED after the AdvertiseResponse
ReceiveAdvertiseResponseNoQuit(s, p) ==
    /\ pc[s] = "recv_response"
    /\ proof' = [proof EXCEPT ![s] = p]
    /\ pc' = [pc EXCEPT ![s] = "get"]
    /\ Did(s, <<Received("AdvertiseResponse")>>)
    /\ UNCHANGED <<lifecycle, logs, monitor, inserted, _handler_pool, address, advertise, maybe_peer,
                   role, awaited_peer, store, _completed_disconnects, sent>>

\* _receive_and_log<AdvertiseResponse>, then QUIT_IF_REQUESTED; the proof is
\* not compared with the nonce
ReceiveAdvertiseResponse(s, p) ==
    /\ pc[s] = "recv_response"
    /\ proof' = [proof EXCEPT ![s] = p]
    /\ pc' = [pc EXCEPT ![s] = QuitIfRequested("AdvertiseResponse", "get")]
    /\ Did(s, <<Received("AdvertiseResponse")>>)
    /\ UNCHANGED <<lifecycle, logs, monitor, inserted, _handler_pool, address, advertise, maybe_peer, role, awaited_peer,
                   store, _completed_disconnects, sent>>

\* maybe_peer = _key_to_identifier_store.get(their_key)
GetPeer(s) ==
    /\ pc[s] = "get"
    /\ LET found == StoreGet(store, advertise[s].their_key) IN
         /\ maybe_peer' = [maybe_peer EXCEPT ![s] = found]
         /\ role' = [role EXCEPT
                       ![s] = IF found = <<>> THEN "Initiator" ELSE "Responder"]
         /\ pc' = [pc EXCEPT
                     ![s] = IF found = <<>> THEN "put_client" ELSE "put_peer"]
    /\ Did(s, <<Called("get")>>)
    /\ UNCHANGED <<lifecycle, logs, monitor, inserted, _handler_pool, address, advertise, proof, awaited_peer,
                   store, _completed_disconnects, sent>>

\* !maybe_peer: put(our_key, PeerIdentifier(address, version))
PutClient(s) ==
    /\ pc[s] = "put_client"
    /\ store' = StorePut(store, advertise[s].our_key,
                         PeerIdentifier(address[s], advertise[s].version, s))
    /\ pc' = [pc EXCEPT ![s] = "await"]
    /\ Did(s, <<Called("put")>>)
    /\ UNCHANGED <<lifecycle, logs, monitor, inserted, _handler_pool, address, advertise, proof, maybe_peer, role,
                   awaited_peer, _completed_disconnects, sent>>

\* await(their_key, 2000) returns a record
AwaitPeer(s) ==
    /\ pc[s] = "await"
    /\ StoreAwait(store, advertise[s].their_key) # <<>>
    /\ awaited_peer' = [awaited_peer EXCEPT
                          ![s] = StoreAwait(store, advertise[s].their_key)]
    /\ pc' = [pc EXCEPT ![s] = "wait_for_disconnect"]
    /\ Did(s, <<Called("await")>>)
    /\ UNCHANGED <<lifecycle, logs, monitor, inserted, _handler_pool, address, advertise, proof, maybe_peer, role, store,
                   _completed_disconnects, sent>>

\* faulty variant: the return after the timed-out await is missing
AwaitTimeoutFallsThrough(s) ==
    /\ pc[s] = "await"
    /\ StoreAwait(store, advertise[s].their_key) = <<>>
    /\ pc' = [pc EXCEPT ![s] = "wait_for_disconnect"]
    /\ Did(s, <<Called("await_timed_out")>>)
    /\ UNCHANGED <<lifecycle, logs, monitor, inserted, _handler_pool, address, advertise, proof, maybe_peer,
                   role, awaited_peer, store, _completed_disconnects, sent>>

\* faulty variant: the await gives up although the record is there
AwaitTimeoutEarly(s) ==
    /\ pc[s] = "await"
    /\ pc' = [pc EXCEPT ![s] = "timed_out"]
    /\ Did(s, <<Called("await_timed_out")>>)
    /\ UNCHANGED <<lifecycle, logs, monitor, inserted, _handler_pool, address, advertise, proof, maybe_peer,
                   role, awaited_peer, store, _completed_disconnects, sent>>

\* await(their_key, 2000) times out: !awaited_peer, return
AwaitTimeout(s) ==
    /\ pc[s] = "await"
    /\ StoreAwait(store, advertise[s].their_key) = <<>>
    /\ pc' = [pc EXCEPT ![s] = "timed_out"]
    /\ Did(s, <<Called("await_timed_out")>>)
    /\ UNCHANGED <<lifecycle, logs, monitor, inserted, _handler_pool, address, advertise, proof, maybe_peer, role,
                   awaited_peer, store, _completed_disconnects, sent>>

\* _wait_for_disconnect(awaited_peer->socket_address): under _mutex, wait until
\* the address is in _completed_disconnects, then erase it
WaitForDisconnect(s) ==
    /\ pc[s] = "wait_for_disconnect"
    /\ awaited_peer[s][1].socket_address \in _completed_disconnects
    /\ _completed_disconnects' =
           _completed_disconnects \ {awaited_peer[s][1].socket_address}
    /\ pc' = [pc EXCEPT ![s] = "send_identification"]
    /\ Did(s, <<Called("wait_for")>>)
    /\ UNCHANGED <<lifecycle, logs, monitor, inserted, _handler_pool, address, advertise, proof, maybe_peer, role,
                   awaited_peer, store, sent>>

\* faulty variant: the PeerIdentification is built from this session's own address
SendPeerIdentificationOfSelf(s) ==
    /\ pc[s] = "send_identification"
    /\ sent' = [sent EXCEPT
                  ![s] = Append(@, PeerIdentification(
                             PeerIdentifier(address[s], advertise[s].version, s)))]
    /\ pc' = [pc EXCEPT ![s] = QuitIfRequested("PeerIdentification", "finished")]
    /\ Did(s, <<Sent("PeerIdentification")>>)
    /\ UNCHANGED <<lifecycle, logs, monitor, inserted, _handler_pool, address, advertise, proof, maybe_peer,
                   role, awaited_peer, store, _completed_disconnects>>

\* faulty variant: the else is missing, the Responder branch follows the
\* PeerIdentification
SendPeerIdentificationFallsThrough(s) ==
    /\ pc[s] = "send_identification"
    /\ sent' = [sent EXCEPT ![s] = Append(@, PeerIdentification(awaited_peer[s][1]))]
    /\ pc' = [pc EXCEPT ![s] = QuitIfRequested("PeerIdentification", "put_peer")]
    /\ Did(s, <<Sent("PeerIdentification")>>)
    /\ UNCHANGED <<lifecycle, logs, monitor, inserted, _handler_pool, address, advertise, proof, maybe_peer,
                   role, awaited_peer, store, _completed_disconnects>>

\* send PeerIdentification of the awaited peer, QUIT_IF_REQUESTED, notify, return
SendPeerIdentification(s) ==
    /\ pc[s] = "send_identification"
    /\ sent' = [sent EXCEPT ![s] = Append(@, PeerIdentification(awaited_peer[s][1]))]
    /\ pc' = [pc EXCEPT ![s] = QuitIfRequested("PeerIdentification", "finished")]
    /\ Did(s, <<Sent("PeerIdentification")>>)
    /\ UNCHANGED <<lifecycle, logs, monitor, inserted, _handler_pool, address, advertise, proof, maybe_peer, role,
                   awaited_peer, store, _completed_disconnects>>

\* faulty variant: the address is marked complete when the Responder registers,
\* before the PeerDisconnect is sent
PutPeerMarksEarly(s) ==
    /\ pc[s] = "put_peer"
    /\ store' = StorePut(store, advertise[s].our_key,
                         PeerIdentifier(address[s], advertise[s].version, s))
    /\ _completed_disconnects' = _completed_disconnects \cup {address[s]}
    /\ pc' = [pc EXCEPT ![s] = "send_disconnect"]
    /\ Did(s, <<Called("put")>>)
    /\ UNCHANGED <<lifecycle, logs, monitor, inserted, _handler_pool, address, advertise, proof, maybe_peer,
                   role, awaited_peer, sent>>

\* maybe_peer: put(our_key, PeerIdentifier(address, version))
PutPeer(s) ==
    /\ pc[s] = "put_peer"
    /\ store' = StorePut(store, advertise[s].our_key,
                         PeerIdentifier(address[s], advertise[s].version, s))
    /\ pc' = [pc EXCEPT ![s] = "send_disconnect"]
    /\ Did(s, <<Called("put")>>)
    /\ UNCHANGED <<lifecycle, logs, monitor, inserted, _handler_pool, address, advertise, proof, maybe_peer, role,
                   awaited_peer, _completed_disconnects, sent>>

\* send PeerDisconnect{port of this session's socket}
SendPeerDisconnect(s) ==
    /\ pc[s] = "send_disconnect"
    /\ sent' = [sent EXCEPT ![s] = Append(@, PeerDisconnect(address[s]))]
    /\ pc' = [pc EXCEPT ![s] = "add_to_disconnects"]
    /\ Did(s, <<Sent("PeerDisconnect")>>)
    /\ UNCHANGED <<lifecycle, logs, monitor, inserted, _handler_pool, address, advertise, proof, maybe_peer, role,
                   awaited_peer, store, _completed_disconnects>>

\* _completed_disconnects.insert(address)
Insert(a) ==
    /\ _completed_disconnects' = _completed_disconnects \cup {a}
    /\ inserted' = IF a \in _completed_disconnects THEN inserted
                   ELSE [inserted EXCEPT ![a] = @ + 1]

\* _add_to_disconnects(address), QUIT_IF_REQUESTED, notify, return
AddToDisconnects(s) ==
    /\ pc[s] = "add_to_disconnects"
    /\ Insert(address[s])
    /\ pc' = [pc EXCEPT ![s] = QuitIfRequested("PeerDisconnect", "finished")]
    /\ Did(s, <<Called("mark_complete")>>)
    /\ UNCHANGED <<lifecycle, logs, monitor, _handler_pool, address, advertise, proof, maybe_peer, role,
                   awaited_peer, store, sent>>

\* ------------------------------- _mutex and _disconnect_cv, lock by lock
\* the thread that owns the FakeMediator and calls await_shutdown()
Owner == 0

Awaited(s) == awaited_peer[s][1].socket_address

\* _wait_for_disconnect: std::unique_lock<std::mutex> lock(_mutex)
WaitLock(s) ==
    /\ pc[s] = "wait_for_disconnect"
    /\ _mutex = <<>>
    /\ _mutex' = <<s>>
    /\ pc' = [pc EXCEPT ![s] = "wait_test"]
    /\ UNCHANGED <<lifecycle, logs, inserted, _disconnect_cv, _handler_pool, address,
                   advertise, proof, maybe_peer, role, awaited_peer, store,
                   _completed_disconnects, sent, trace>>

\* faulty variant: the predicate is tested in a critical section of its own,
\* the lock is released before the erase
WaitTestUnlocks(s) ==
    /\ pc[s] = "wait_test"
    /\ _mutex = <<s>>
    /\ Awaited(s) \in _completed_disconnects
    /\ _mutex' = <<>>
    /\ pc' = [pc EXCEPT ![s] = "wait_erase"]
    /\ UNCHANGED <<lifecycle, logs, inserted, _disconnect_cv, _handler_pool, address,
                   advertise, proof, maybe_peer, role, awaited_peer, store,
                   _completed_disconnects, sent, trace>>

\* _disconnect_cv.wait(lock, pred): the predicate holds, wait returns with the
\* lock held
WaitTest(s) ==
    /\ pc[s] = "wait_test"
    /\ _mutex = <<s>>
    /\ Awaited(s) \in _completed_disconnects
    /\ pc' = [pc EXCEPT ![s] = "wait_erase"]
    /\ UNCHANGED <<lifecycle, logs, monitor, inserted, _handler_pool, address,
                   advertise, proof, maybe_peer, role, awaited_peer, store,
                   _completed_disconnects, sent, trace>>

\* _disconnect_cv.wait(lock, pred): the predicate does not hold, the thread
\* releases the lock and blocks on the condition variable, in one step
WaitBlock(s) ==
    /\ pc[s] = "wait_test"
    /\ _mutex = <<s>>
    /\ Awaited(s) \notin _completed_disconnects
    /\ _mutex' = <<>>
    /\ _disconnect_cv' = _disconnect_cv \cup {s}
    /\ pc' = [pc EXCEPT ![s] = "wait_blocked"]
    /\ UNCHANGED <<lifecycle, logs, inserted, _handler_pool, address, advertise, proof,
                   maybe_peer, role, awaited_peer, store, _completed_disconnects,
                   sent, trace>>

\* faulty variant: a plain wait(lock), the woken thread goes on without
\* testing the predicate again
WaitWakeNoRecheck(s) ==
    /\ pc[s] = "wait_blocked"
    /\ s \notin _disconnect_cv
    /\ _mutex = <<>>
    /\ _mutex' = <<s>>
    /\ pc' = [pc EXCEPT ![s] = "wait_erase"]
    /\ UNCHANGED <<lifecycle, logs, inserted, _disconnect_cv, _handler_pool, address,
                   advertise, proof, maybe_peer, role, awaited_peer, store,
                   _completed_disconnects, sent, trace>>

\* _disconnect_cv.wait(lock, pred): a woken thread takes the lock again and
\* tests the predicate again
WaitWake(s) ==
    /\ pc[s] = "wait_blocked"
    /\ s \notin _disconnect_cv
    /\ _mutex = <<>>
    /\ _mutex' = <<s>>
    /\ pc' = [pc EXCEPT ![s] = "wait_test"]
    /\ UNCHANGED <<lifecycle, logs, inserted, _disconnect_cv, _handler_pool, address,
                   advertise, proof, maybe_peer, role, awaited_peer, store,
                   _completed_disconnects, sent, trace>>

\* _completed_disconnects.erase(address), and the lock is released on return
WaitErase(s) ==
    /\ pc[s] = "wait_erase"
    /\ _completed_disconnects' = _completed_disconnects \ {Awaited(s)}
    /\ _mutex' = IF _mutex = <<s>> THEN <<>> ELSE _mutex
    /\ pc' = [pc EXCEPT ![s] = "send_identification"]
    /\ Did(s, <<Called("wait_for")>>)
    /\ UNCHANGED <<lifecycle, logs, inserted, _disconnect_cv, _handler_pool, address,
                   advertise, proof, maybe_peer, role, awaited_peer, store, sent>>

\* a wait on a std::condition_variable may return without a notification
SpuriousWakeup(th) ==
    /\ th \in _disconnect_cv
    /\ _disconnect_cv' = _disconnect_cv \ {th}
    /\ UNCHANGED <<lifecycle, handlers, logs, inserted, _mutex>>

\* _add_to_disconnects: the insert under std::lock_guard<std::mutex>
MarkInsert(s) ==
    /\ pc[s] = "add_to_disconnects"
    /\ _mutex = <<>>
    /\ Insert(address[s])
    /\ pc' = [pc EXCEPT ![s] = "notify_disconnect"]
    /\ Did(s, <<Called("mark_complete")>>)
    /\ UNCHANGED <<lifecycle, logs, monitor, _handler_pool, address, advertise, proof,
                   maybe_peer, role, awaited_peer, store, sent>>

\* _add_to_disconnects: _disconnect_cv.notify_all() after the lock is released;
\* then QUIT_IF_REQUESTED, _shutdown_cv.notify_all() and return (no thread ever
\* waits on _shutdown_cv, so notifying it changes nothing)
MarkNotify(s) ==
    /\ pc[s] = "notify_disconnect"
    /\ _disconnect_cv' = {}
    /\ pc' = [pc EXCEPT ![s] = QuitIfRequested("PeerDisconnect", "finished")]
    /\ UNCHANGED <<lifecycle, logs, inserted, _mutex, _handler_pool, address, advertise,
                   proof, maybe_peer, role, awaited_peer, store,
                   _completed_disconnects, sent, trace>>

\* await_shutdown(): std::unique_lock<std::mutex> lock(_mutex)
AwaitShutdownLock ==
    /\ mainpc = "running"
    /\ _mutex = <<>>
    /\ _mutex' = <<Owner>>
    /\ mainpc' = "await_shutdown"
    /\ UNCHANGED <<_is_running, _quit_after, sock_open, workerpc, handlers, logs,
                   inserted, _disconnect_cv>>

\* await_shutdown(): _disconnect_cv.wait(lock), a wait without a predicate
AwaitShutdownWait ==
    /\ mainpc = "await_shutdown"
    /\ _mutex' = <<>>
    /\ _disconnect_cv' = _disconnect_cv \cup {Owner}
    /\ mainpc' = "await_blocked"
    /\ UNCHANGED <<_is_running, _quit_after, sock_open, workerpc, handlers, logs,
                   inserted>>

\* await_shutdown(): woken, the owner takes the lock again and returns
AwaitShutdownReturn ==
    /\ mainpc = "await_blocked"
    /\ Owner \notin _disconnect_cv
    /\ _mutex = <<>>
    /\ mainpc' = "shut_down"
    /\ UNCHANGED <<_is_running, _quit_after, sock_open, workerpc, handlers, logs,
                   monitor, inserted>>

\* _receive_and_log: socket->receive() or message::decode<T> throws; nothing in
\* _handle_connection or in the thread entry catches, so the exception leaves
\* the std::thread and std::terminate ends the process, every thread with it
ReceiveThrows(s) ==
    /\ pc[s] \in {"recv_advertise", "recv_response"}
    /\ pc' = [t \in Sessions |-> IF Live(t) THEN "terminated" ELSE pc[t]]
    /\ workerpc' = "terminated"
    /\ mainpc' = "terminated"
    /\ UNCHANGED <<_is_running, _quit_after, sock_open, _handler_pool, address,
                   advertise, proof, maybe_peer, role, awaited_peer, store,
                   _completed_disconnects, sent, trace, logs, monitor, inserted>>

\* ------------------------------------------- _send_and_log, _receive_and_log
Advertise(payload) ==
    [type |-> "Advertise", version |-> payload.version,
     our_key |-> payload.our_key, their_key |-> payload.their_key]

AdvertiseResponse(p) == [type |-> "AdvertiseResponse", proof |-> p]

IsIO(step) == step.op \in {"receive", "send"}

\* the sends and receives of handler s, in program order
IO(s) == SelectSeq(history[s], IsIO)

\* handler s has logged everything it sent and received
Logged(s) == logged[s] = Len(IO(s)) /\ push_back[s] = <<>>

\* the send or receive handler s logs next, and which of its sends it is
NextIO(s) == IO(s)[logged[s] + 1]
IsSend(step) == step.op = "send"
NthSend(s) == Len(SelectSeq(SubSeq(IO(s), 1, logged[s] + 1), IsSend))

\* json (line 195) or raw_message (line 206) of that send or receive; by is a
\* history field naming the handler
Json(s) ==
    [by |-> s,
     json |-> IF NextIO(s).op = "send" THEN sent[s][NthSend(s)]
              ELSE IF NextIO(s).type = "Advertise" THEN Advertise(advertise[s])
              ELSE AdvertiseResponse(proof[s])]

\* a std::vector: the elements of its array and its end; the log is the array
\* up to the end
Vector(data, end) == [data |-> data, end |-> end]
Elements(v) == SubSeq(v.data, 1, v.end)

\* push_back(x) constructs x at the end it read and stores that end plus one
PushBack(v, end, x) ==
    Vector(IF end < Len(v.data) THEN [v.data EXCEPT ![end + 1] = x]
                                ELSE Append(v.data, x),
           end + 1)

\* _sent_messages.push_back(json) or _received_messages.push_back(raw_message),
\* entered without a lock: the handler reads the end of the vector ...
PushBackBegin(s) ==
    /\ logged[s] < Len(IO(s))
    /\ push_back[s] = <<>>
    /\ push_back' = [push_back EXCEPT
                       ![s] = IF NextIO(s).op = "send"
                              THEN <<_sent_messages.end>>
                              ELSE <<_received_messages.end>>]
    /\ UNCHANGED <<lifecycle, handlers, monitor, inserted,
                   _sent_messages, _received_messages, logged>>

\* ... and writes the element and the new end. Two handlers inside push_back
\* at once are a data race: the later one overwrites the element and the end
\* the earlier one wrote.
PushBackEnd(s) ==
    /\ push_back[s] # <<>>
    /\ IF NextIO(s).op = "send"
       THEN /\ _sent_messages' = PushBack(_sent_messages, push_back[s][1], Json(s))
            /\ UNCHANGED _received_messages
       ELSE /\ _received_messages' =
                   PushBack(_received_messages, push_back[s][1], Json(s))
            /\ UNCHANGED _sent_messages
    /\ logged' = [logged EXCEPT ![s] = @ + 1]
    /\ push_back' = [push_back EXCEPT ![s] = <<>>]
    /\ UNCHANGED <<lifecycle, handlers, monitor, inserted>>

\* one step of the handler of session s; a peer advertises its own key and the
\* key of another peer
HandleConnection(s) ==
    \/ \E v \in Versions, ok \in Keys :
           \E tk \in Keys \ {ok} : ReceiveAdvertise(s, v, ok, tk)
    \/ SendAdvertiseAbort(s)
    \/ SendAdvertiseChallenge(s)
    \/ \E p \in Proofs : ReceiveAdvertiseResponse(s, p)
    \/ GetPeer(s)
    \/ PutClient(s)
    \/ AwaitPeer(s)
    \/ AwaitTimeout(s)
    \/ WaitForDisconnect(s)
    \/ SendPeerIdentification(s)
    \/ PutPeer(s)
    \/ SendPeerDisconnect(s)
    \/ AddToDisconnects(s)

\* the running mediator as constructed: no quit_after configured, no stop()
Next ==
    \/ Run
    \/ LoopCheck
    \/ \E a \in Addrs : Accept(a)
    \/ \E s \in Sessions : HandleConnection(s)

Spec == Init /\ [][Next]_vars

\* the mediator of a test that may configure quit_after before run()
NextQuit ==
    \/ \E t \in MessageTypes : QuitAfter(t)
    \/ Next

SpecQuit == Init /\ [][NextQuit]_vars

\* the same two, keeping the history of every handler
SpecRecorded == InitRecording /\ [][Next]_vars

SpecQuitRecorded == InitRecording /\ [][NextQuit]_vars

\* the mediator with its owner calling stop() at any moment after run()
Stop ==
    \/ StopBegin
    \/ StopClose
    \/ StopJoinWorker
    \/ StopJoinHandlers

NextStop ==
    \/ Next
    \/ AcceptNull
    \/ Stop

SpecStop == Init /\ [][NextStop]_vars

\* the mediator serving peers whose messages may be undecodable and whose
\* connections may fail
NextErr ==
    \/ Next
    \/ \E s \in Sessions : ReceiveThrows(s)

SpecErr == Init /\ [][NextErr]_vars

\* The test of the spec's concrete scenario: one peer per key, peer i
\* connecting from an address of its own, advertising key i and asking for the
\* next key, and answering the challenge with the nonce. A handler goes on
\* after _send_and_log or _receive_and_log has returned.
ScenarioAddr(i) == [ip |-> 10 * i, port |-> i]
ScenarioKey(i) == ((i - 1) % NumKeys) + 1

HandleConnectionLogged(s) ==
    /\ Logged(s)
    /\ \/ \E v \in Versions :
              ReceiveAdvertise(s, v, ScenarioKey(s), ScenarioKey(s + 1))
       \/ SendAdvertiseAbort(s)
       \/ SendAdvertiseChallenge(s)
       \/ ReceiveAdvertiseResponse(s, nonce)
       \/ GetPeer(s)
       \/ PutClient(s)
       \/ AwaitPeer(s)
       \/ AwaitTimeout(s)
       \/ WaitForDisconnect(s)
       \/ SendPeerIdentification(s)
       \/ PutPeer(s)
       \/ SendPeerDisconnect(s)
       \/ AddToDisconnects(s)

AcceptScenario ==
    /\ _handler_pool < NumKeys
    /\ Accept(ScenarioAddr(_handler_pool + 1))

\* the running mediator with the writes of its two logs
NextLog ==
    \/ Run
    \/ LoopCheck
    \/ AcceptScenario
    \/ \E s \in Sessions : HandleConnectionLogged(s)
    \/ \E s \in Sessions : PushBackBegin(s)
    \/ \E s \in Sessions : PushBackEnd(s)

SpecLog == InitRecording /\ [][NextLog]_vars

\* the steps of a handler after the Advertise, _wait_for_disconnect and
\* _add_to_disconnects taken lock by lock; the proof a peer answers with is
\* read by no step, and here it is the nonce
HandleConnectionLocked(s) ==
    \/ SendAdvertiseAbort(s)
    \/ SendAdvertiseChallenge(s)
    \/ ReceiveAdvertiseResponse(s, nonce)
    \/ GetPeer(s)
    \/ PutClient(s)
    \/ AwaitPeer(s)
    \/ AwaitTimeout(s)
    \/ WaitLock(s)
    \/ WaitTest(s)
    \/ WaitBlock(s)
    \/ WaitWake(s)
    \/ WaitErase(s)
    \/ SendPeerIdentification(s)
    \/ PutPeer(s)
    \/ SendPeerDisconnect(s)
    \/ MarkInsert(s)
    \/ MarkNotify(s)

\* one step of the handler of session s, lock by lock
HandleConnectionMonitor(s) ==
    \/ \E v \in Versions, ok \in Keys :
           \E tk \in Keys \ {ok} : ReceiveAdvertise(s, v, ok, tk)
    \/ HandleConnectionLocked(s)

\* the running mediator with the lock and the condition variable of its
\* handlers step by step
NextMonitor ==
    \/ Run
    \/ LoopCheck
    \/ \E a \in Addrs : Accept(a)
    \/ \E s \in Sessions : HandleConnectionMonitor(s)
    \/ \E s \in Sessions : SpuriousWakeup(s)

SpecMonitor == InitRecording /\ [][NextMonitor]_vars

\* one step of the handler of peer s of the scenario, lock by lock
HandleConnectionShutdown(s) ==
    \/ \E v \in Versions :
           ReceiveAdvertise(s, v, ScenarioKey(s), ScenarioKey(s + 1))
    \/ HandleConnectionLocked(s)

\* await_shutdown(), called by the owner at any moment after run()
AwaitShutdown ==
    \/ AwaitShutdownLock
    \/ AwaitShutdownWait
    \/ AwaitShutdownReturn

\* the test of the scenario, which may configure quit_after before run() and
\* wait in await_shutdown() after it
NextShutdown ==
    \/ \E t \in MessageTypes : QuitAfter(t)
    \/ Run
    \/ LoopCheck
    \/ AcceptScenario
    \/ \E s \in Sessions : HandleConnectionShutdown(s)
    \/ \E th \in Sessions \cup {Owner} : SpuriousWakeup(th)
    \/ AwaitShutdown

SpecShutdown == InitRecording /\ [][NextShutdown]_vars

\* ------------------------------------------------------------ properties
HasSent(s, t) == \E i \in 1..Len(sent[s]) : sent[s][i].type = t

\* a handler that took the Responder branch has returned only after
\* _add_to_disconnects
Marked(t) == role[t] = "Responder" /\ pc[t] \in Returned

HasAdvertised(s) == advertise[s] # NoAdvertise

Mutual(a, b) ==
    /\ a # b
    /\ HasAdvertised(a) /\ HasAdvertised(b)
    /\ advertise[a].their_key = advertise[b].our_key
    /\ advertise[b].their_key = advertise[a].our_key

\* C1: whenever a handler has sent PeerIdentification, the session that
\* registered the record it carries has already performed _add_to_disconnects.
C1_MarkCompleteBeforeIdentification ==
    \A s \in Sessions :
        HasSent(s, "PeerIdentification") => Marked(awaited_peer[s][1].by)

\* C2: two sessions that reference each other and both resolved their role
\* never took the same branch.
C2_OneInitiatorOneResponder ==
    \A a, b \in Sessions :
        (Mutual(a, b) /\ role[a] # "Unresolved" /\ role[b] # "Unresolved")
            => role[a] # role[b]

\* b looked up a's key, found the record a registered, and a is still inside
\* its await
ArrivedInTime(a, b) ==
    /\ Mutual(a, b)
    /\ pc[a] = "await"
    /\ maybe_peer[b] # <<>>
    /\ maybe_peer[b][1].by = a

\* C3: once B has arrived (its lookup found A's registration while A was still
\* awaiting), A goes on to be sent PeerIdentification: A's await never takes
\* the timed-out exit.
C3_ArrivedPeerIsIdentified ==
    [][\A a, b \in Sessions : ArrivedInTime(a, b) => pc'[a] # "timed_out"]_vars

\* the handler of t has put its record into the identifier store
Registered(t) ==
    role[t] # "Unresolved" /\ pc[t] \notin {"put_client", "put_peer"}

\* C4: every PeerIdentification carries the address and version of the session
\* that registered the record the receiver awaited, a session whose our_key is
\* the receiver's their_key, and every PeerDisconnect carries the port of the
\* connection it is sent on.
C4_PayloadsCorrect ==
    \A s \in Sessions : \A i \in 1..Len(sent[s]) :
        LET m == sent[s][i] IN
        /\ m.type = "PeerIdentification" =>
              /\ awaited_peer[s] # <<>>
              /\ LET t == awaited_peer[s][1].by IN
                    /\ Registered(t)
                    /\ advertise[t].our_key = advertise[s].their_key
                    /\ m.version = advertise[t].version
                    /\ m.ip = address[t].ip
                    /\ m.port = address[t].port
        /\ m.type = "PeerDisconnect" => m.port = address[s].port

C4_Witness ==
    \E s, t \in Sessions :
        /\ HasSent(s, "PeerIdentification")
        /\ HasSent(t, "PeerDisconnect")
        /\ awaited_peer[s][1].by = t
        /\ address[s] # address[t]

\* C5: a handler whose await timed out has returned having sent nothing but
\* the AdvertiseChallenge, and _wait_for_disconnect and the PeerIdentification
\* send are only ever reached with an awaited record.
C5_TimeoutExit ==
    \A s \in Sessions :
        /\ pc[s] = "timed_out" =>
              /\ role[s] = "Initiator"
              /\ awaited_peer[s] = <<>>
              /\ Len(sent[s]) = 1
              /\ sent[s][1].type = "AdvertiseChallenge"
        /\ awaited_peer[s] = <<>> =>
              /\ pc[s] \notin {"wait_for_disconnect", "send_identification"}
              /\ ~HasSent(s, "PeerIdentification")

C5_Witness ==
    \E s, t \in Sessions :
        /\ pc[s] = "timed_out"
        /\ Registered(t) /\ role[t] = "Responder"

LowVersion(s) == HasAdvertised(s) /\ advertise[s].version < kVersion

\* a session that never got past the version check: no challenge, no role,
\* no record in the store, not on the way to the barrier
OnlyAborted(s) ==
    /\ pc[s] \in {"version_check", "aborted", "quit"}
    /\ role[s] = "Unresolved"
    /\ \A k \in Keys : store[k] # <<>> => store[k][1].by # s
    /\ \A i \in 1..Len(sent[s]) : sent[s][i].type = "AdvertiseAbort"

\* C6 (as claimed): every handler that received a version below the required
\* one has, when it returns, sent exactly one AdvertiseAbort naming the
\* required version, and nothing else happened in that session.
C6_VersionRejection ==
    \A s \in Sessions :
        LowVersion(s) =>
            /\ OnlyAborted(s)
            /\ pc[s] \in Returned => sent[s] = <<AdvertiseAbort(kVersion)>>

\* C6 (amended): the same, except that with quit_after(Advertise) configured
\* the handler returns right after receiving the Advertise, having sent nothing.
C6_VersionRejectionUnlessQuit ==
    \A s \in Sessions :
        LowVersion(s) =>
            /\ OnlyAborted(s)
            /\ pc[s] \in Returned =>
                  sent[s] = IF _quit_after = "Advertise"
                            THEN <<>>
                            ELSE <<AdvertiseAbort(kVersion)>>

C6_Witness ==
    \E s, t \in Sessions :
        /\ LowVersion(s)
        /\ pc[s] = "aborted"
        /\ sent[s] = <<AdvertiseAbort(kVersion)>>
        /\ Registered(t)

\* C7: a return of _wait_for_disconnect removes the completion record it
\* matched, and that record was inserted by the session whose registration the
\* waiting handler awaited, never left over from another session of the same
\* address.
C7_NoStaleRelease ==
    [][\A s \in Sessions :
          (pc[s] = "wait_for_disconnect" /\ pc'[s] = "send_identification") =>
              /\ awaited_peer[s][1].socket_address \notin _completed_disconnects'
              /\ Marked(awaited_peer[s][1].by)]_vars

\* C8: only sessions whose AdvertiseResponse carried the nonce are registered
\* in the identifier store or sent PeerDisconnect.
C8_OnlyVerifiedRegistered ==
    /\ \A k \in Keys : store[k] # <<>> => proof[store[k][1].by] = nonce
    /\ \A s \in Sessions : HasSent(s, "PeerDisconnect") => proof[s] = nonce

\* a step in which the session of s fails: unsupported version, await timeout,
\* or an exception out of a receive
Fails(s) ==
    /\ Live(s)
    /\ \/ pc'[s] \in {"aborted", "timed_out"}
       \/ pc[s] \in {"recv_advertise", "recv_response"} /\ pc'[s] = "terminated"

\* C9: a step in which one session fails leaves every other handler and the
\* accept loop where they were, and the store and the completed set untouched.
C9_ErrorIsolation ==
    [][\A s \in Sessions :
          Fails(s) =>
              /\ \A t \in Sessions \ {s} : pc'[t] = pc[t]
              /\ workerpc' = workerpc
              /\ store' = store
              /\ _completed_disconnects' = _completed_disconnects]_vars

\* C10: when stop() has returned, _run() has returned and every handler thread
\* ever emplaced has returned (so none is inside the store or the barrier).
C10_GracefulDrain ==
    mainpc = "stopped" =>
        /\ workerpc = "exited"
        /\ ~_is_running /\ ~sock_open
        /\ \A s \in Sessions : pc[s] \in Returned \cup {"not_accepted"}
        /\ \A s \in Sessions : pc[s] = "not_accepted" <=> s > _handler_pool

C10_Witness ==
    /\ mainpc = "stopped"
    /\ \E s, t \in Sessions :
          /\ HasSent(s, "PeerIdentification")
          /\ HasSent(t, "PeerDisconnect")
          /\ pc[s] = "finished" /\ pc[t] = "finished"

\* the entries handler s has in a log
LogOf(log, s) == SelectSeq(Elements(log), LAMBDA e : e.by = s)

SentBy(s) == [i \in 1..Len(sent[s]) |-> [by |-> s, json |-> sent[s][i]]]

\* C11: once every handler has logged what it sent and received, the sent log
\* holds every message any handler sent, exactly once and in the order that
\* handler sent them, and the received log every message received.
C11_LogsComplete ==
    (\A s \in Sessions : Logged(s)) =>
        /\ \A s \in Sessions : LogOf(_sent_messages, s) = SentBy(s)
        /\ \A s \in Sessions :
              Len(LogOf(_received_messages, s)) = Len(IO(s)) - Len(sent[s])

\* handler s has sent or received a message of type t
Handled(s, t) ==
    \E i \in 1..Len(history[s]) : IsIO(history[s][i]) /\ history[s][i].type = t

\* the last call handler s completed
Last(s) == history[s][Len(history[s])]

\* C12 (as claimed): a handler that has sent or received a message of the
\* type quit_after names has returned, and that message is the last receive,
\* send, store or barrier call it completed.
C12_QuitImmediately ==
    \A s \in Sessions :
        Handled(s, _quit_after) =>
            /\ pc[s] = "quit"
            /\ IsIO(Last(s)) /\ Last(s).type = _quit_after

\* C12 (amended): the same, except that with quit_after(PeerDisconnect) the
\* handler still does _add_to_disconnects(own address), once, and then returns.
C12_QuitAfterMarkComplete ==
    \A s \in Sessions :
        Handled(s, _quit_after) =>
            \/ /\ pc[s] = "quit"
               /\ IsIO(Last(s)) /\ Last(s).type = _quit_after
            \/ /\ _quit_after = "PeerDisconnect"
               /\ pc[s] = "add_to_disconnects"
               /\ Last(s) = Sent("PeerDisconnect")
            \/ /\ _quit_after = "PeerDisconnect"
               /\ pc[s] = "quit"
               /\ Last(s) = Called("mark_complete")
               /\ history[s][Len(history[s]) - 1] = Sent("PeerDisconnect")

C12_Witness ==
    /\ _quit_after = "PeerDisconnect"
    /\ \E s, t \in Sessions :
          /\ pc[s] = "quit"
          /\ Last(s) = Called("mark_complete")
          /\ pc[t] = "send_identification"
          /\ awaited_peer[t][1].by = s

\* handler s is inside _wait_for_disconnect and its address is not in the set
Blocked(s) ==
    /\ pc[s] = "wait_for_disconnect"
    /\ awaited_peer[s][1].socket_address \notin _completed_disconnects

\* C13: no handler is left blocked in _wait_for_disconnect: while one is
\* blocked, some other handler is still on its way (to _add_to_disconnects);
\* the handlers never all end up returned or blocked.
C13_BoundedWait ==
    \A s \in Sessions :
        Blocked(s) => \E t \in Sessions \ {s} : Live(t) /\ ~Blocked(t)

IsPrefix(a, b) == Len(a) <= Len(b) /\ a = SubSeq(b, 1, Len(a))

\* the message sequences of _handle_connection
Rejected == <<Received("Advertise"), Sent("AdvertiseAbort")>>
Handshake ==
    <<Received("Advertise"), Sent("AdvertiseChallenge"), Received("AdvertiseResponse")>>
Identified == Append(Handshake, Sent("PeerIdentification"))
Disconnected == Append(Handshake, Sent("PeerDisconnect"))

\* C14: the messages of a session are a prefix of Advertise, AdvertiseAbort or
\* of Advertise, AdvertiseChallenge, AdvertiseResponse and then one of
\* PeerIdentification and PeerDisconnect, never both; and every store or
\* barrier call of a handler comes after it received the AdvertiseResponse.
C14_StepOrder ==
    \A s \in Sessions :
        LET h == history[s]
            io == IO(s)
        IN  /\ \/ IsPrefix(io, Rejected)
               \/ IsPrefix(io, Identified)
               \/ IsPrefix(io, Disconnected)
            /\ ~(HasSent(s, "PeerIdentification") /\ HasSent(s, "PeerDisconnect"))
            /\ \A i \in 1..Len(h) :
                  ~IsIO(h[i]) =>
                      \E j \in 1..(i - 1) : h[j] = Received("AdvertiseResponse")

C14_Witness ==
    \E s, t, u \in Sessions :
        /\ IO(s) = Identified
        /\ IO(t) = Disconnected
        /\ IO(u) = Rejected

\* what handler s did after get(their_key), its fourth call
AfterGet(s) == SubSeq(history[s], 5, Len(history[s]))

\* C15: a Responder does put(our_key), sends PeerDisconnect and does
\* _add_to_disconnects(own address), in that order and nothing else; an
\* address is in _completed_disconnects only if PeerDisconnect has been sent
\* on a connection with that address.
C15_ResponderOrder ==
    /\ \A s \in Sessions :
          role[s] = "Responder" =>
              LET tail == AfterGet(s) IN
              /\ IsPrefix(tail, <<Called("put"), Sent("PeerDisconnect"),
                                  Called("mark_complete")>>)
              /\ Len(tail) >= 2 <=> HasSent(s, "PeerDisconnect")
    /\ \A a \in _completed_disconnects :
          \E t \in Sessions : address[t] = a /\ HasSent(t, "PeerDisconnect")

C15_Witness ==
    \E t \in Sessions :
        /\ role[t] = "Responder"
        /\ Len(AfterGet(t)) = 3
        /\ address[t] \in _completed_disconnects
        /\ pc[t] = "finished"

AllReturned == _handler_pool > 0 /\ \A s \in Sessions : ~Live(s)

\* C18: a handler is sent PeerDisconnect only for a counterpart that asked for
\* its key and has not returned; once every handler has returned, each session
\* that was sent PeerDisconnect has a counterpart that was sent
\* PeerIdentification with its address, and no address is left in
\* _completed_disconnects.
C18_MatchedDisconnect ==
    [][/\ \A t \in Sessions :
             (pc[t] = "send_disconnect" /\ pc'[t] # pc[t]) =>
                 LET c == maybe_peer[t][1].by IN
                 /\ advertise[c].their_key = advertise[t].our_key
                 /\ pc[c] \notin Returned
       /\ AllReturned' =>
             /\ _completed_disconnects' = {}
             /\ \A t \in Sessions :
                   HasSent(t, "PeerDisconnect")' =>
                       \E s \in Sessions \ {t} :
                           /\ advertise'[s].their_key = advertise'[t].our_key
                           /\ \E i \in 1..Len(sent'[s]) :
                                 sent'[s][i] = PeerIdentification(
                                     PeerIdentifier(address'[t], advertise'[t].version, t))
      ]_vars

\* the thread holding _mutex has a step to take that releases it
HolderRuns ==
    \A th \in Sessions \cup {Owner} :
        _mutex = <<th>> =>
            IF th = Owner THEN mainpc = "await_shutdown"
            ELSE pc[th] \in {"wait_test", "wait_erase"}

C19_ShutdownNotification ==
    [][/\ (/\ Owner \in _disconnect_cv
           /\ \E s \in Sessions : Live(s) /\ pc'[s] \in Returned)
              => Owner \notin _disconnect_cv'
       /\ (/\ mainpc = "await_shutdown" /\ mainpc' = "await_blocked"
           /\ \E s \in Sessions : pc[s] \in Returned)
              => Owner \notin _disconnect_cv']_vars

\* the handlers whose _wait_for_disconnect(a) has returned
Released(a) ==
    {s \in Sessions : /\ \E i \in 1..Len(history[s]) :
                             history[s][i] = Called("wait_for")
                      /\ Awaited(s) = a}

\* C20: at most one handler at a time is between the membership test and the
\* erase, and it holds _mutex; for every address, no more returns of
\* _wait_for_disconnect than inserts of the address into the set.
C20_AtomicConsume ==
    /\ \A s \in Sessions : pc[s] = "wait_erase" => _mutex = <<s>>
    /\ \A a \in Addrs : Cardinality(Released(a)) <= inserted[a]

\* two handlers waited for the same address and one insert released one
C20_Witness ==
    \E s, u \in Sessions :
        /\ s # u
        /\ pc[s] = "send_identification"
        /\ pc[u] = "wait_blocked"
        /\ Awaited(u) = Awaited(s)
        /\ inserted[Awaited(s)] = 1

====
